---- MODULE Spec2Model ----
(***************************************************************************)
(* Memory Scramble board (Lab-3 board.ts): the Board ADT with its grid,    *)
(* player states, per-card FIFO wait queues and watchers, driven by        *)
(* concurrent look / flip / map / watch calls.                             *)
(*                                                                         *)
(* JavaScript runs every handler to its next `await` without interruption, *)
(* so one action is one such run-to-await segment of one call:             *)
(*   - the call itself, up to its first await, return or throw;            *)
(*   - the continuation after `await this.finishPreviousPlay(..)`;         *)
(*   - the continuation of a flip whose waitForCard promise was resolved;  *)
(*   - the continuation of a map after one `await f(card)`;                *)
(*   - the continuation of a watch whose promise was resolved.             *)
(* A resolved promise only schedules its continuation: other calls may be  *)
(* issued, and other continuations may run, before it.  The order among    *)
(* ready continuations and new calls is left nondeterministic.             *)
(***************************************************************************)
EXTENDS Integers, Sequences, FiniteSets, TLC

VARIABLES
    rows,            \* Board.rows
    columns,         \* Board.columns
    grid,            \* Board.grid: <<row, column>> -> Spot
    players,         \* Board.players: Map playerId -> PlayerState
    waitingForCard,  \* Board.waitingForCard: <<row, column>> -> queue of suspended flips
    watchers,        \* Board.watchers: suspended watch calls, in registration order
    calls,           \* the calls in flight: position and locals of each async call
    env,             \* who calls what: the players and operations of this run (fixed by Init)
    ev               \* the segment that ran last: what it was and what it returned / woke

vars == <<rows, columns, grid, players, waitingForCard, watchers, calls, env, ev>>

----------------------------------------------------------------------------
(* Bounds of the model *)

\* number of calls that may be in flight at once
MaxCalls == 2

\* the same, where the wait queues are the subject
MaxQueueCalls == 3

\* number of distinct player ids that issue calls
NumPlayers == 2

\* the same, where the wait queues are the subject
NumQueuePlayers == 3

\* A field of type `string | null` (Spot.card, Spot.controller) holds Null or Some(v),
\* so that `null` differs from every string, the string "null" included.
Null == <<>>
Some(v) == <<v>>

\* `null` of a firstCard / secondCard
NoPos == <<>>

\* a call slot that is free and the event of the construction name no player and no
\* function: the fields are read only of a call that was begun
NoCaller == "-"
NoFunction == "-"

PlayerIds == {"p1", "p2", "p3", "p4", "p5"}
PlayerName(i) == CASE i = 1 -> "p1" [] i = 2 -> "p2" [] i = 3 -> "p3" [] i = 4 -> "p4" [] OTHER -> "p5"
PlayersUpTo(n) == {PlayerName(i) : i \in 1..n}

CallIds == 1..(IF MaxCalls > MaxQueueCalls THEN MaxCalls ELSE MaxQueueCalls)

----------------------------------------------------------------------------
(* Types *)

\* type Spot
Spot(card) == [card |-> Some(card), faceUp |-> FALSE, controller |-> Null]

\* type PlayerState, as ensurePlayer creates it
PlayerState == [firstCard |-> NoPos, secondCard |-> NoPos, matched |-> FALSE]

\* a free call slot
NoCall == [op |-> "none", player |-> NoCaller, row |-> 0, column |-> 0, pc |-> "free",
           f |-> NoFunction, cards |-> <<>>, repl |-> <<>>, play |-> "none"]

\* the Board constructor: cards in row-major order, all face down, uncontrolled
NewGrid(r, c, cards) ==
    [pos \in (0..(r - 1)) \X (0..(c - 1)) |-> Spot(cards[pos[1] * c + pos[2] + 1])]

\* `spot.card === null || spot.card.length === 0`
NoCardAt(spot) == spot.card = Null \/ spot.card = Some("")

\* grid[row] and grid[row][column] are defined
InGrid(row, column) == row \in 0..(rows - 1) /\ column \in 0..(columns - 1)

----------------------------------------------------------------------------
(* The board as one value B that a handler's statements transform in turn. *)
(* B.outcome, B.freed, B.woke, B.notified and B.view collect what the     *)
(* segment did: B.freed the positions it called notifyCardAvailable with. *)

Cur ==
    [grid |-> grid, players |-> players, waitingForCard |-> waitingForCard,
     watchers |-> watchers, calls |-> calls,
     outcome |-> "pending", freed |-> <<>>, woke |-> <<>>, notified |-> <<>>,
     view |-> <<>>]

\* the cell line with `spot.controller !== null` in place of `spot.controller === playerId`
CellLine_AnyController(spot, playerId) ==
    IF NoCardAt(spot) THEN "none"
    ELSE IF ~spot.faceUp THEN "down"
    ELSE IF spot.controller # Null THEN "my " \o spot.card[1]
    ELSE "up " \o spot.card[1]

\* Board.boardStateFor: the header line and one line per spot, row-major
CellLine(spot, playerId) ==
    IF NoCardAt(spot) THEN "none"
    ELSE IF ~spot.faceUp THEN "down"
    ELSE IF spot.controller = Some(playerId) THEN "my " \o spot.card[1]
    ELSE "up " \o spot.card[1]

boardStateFor(B, playerId) ==
    <<ToString(rows) \o "x" \o ToString(columns)>> \o
    [i \in 1..(rows * columns) |->
        CellLine(B.grid[<<(i - 1) \div columns, (i - 1) % columns>>], playerId)]

\* Board.ensurePlayer
ensurePlayer(B, playerId) ==
    IF playerId \in DOMAIN B.players THEN B
    ELSE [B EXCEPT !.players = (playerId :> PlayerState) @@ B.players]

\* notifyWatchers that resolves the oldest watcher only and keeps the others registered
notifyWatchers_First(B) ==
    [B EXCEPT !.watchers = IF B.watchers = <<>> THEN <<>> ELSE Tail(B.watchers),
              !.calls = [id \in DOMAIN B.calls |->
                            IF B.watchers # <<>> /\ id = Head(B.watchers)
                            THEN [B.calls[id] EXCEPT !.pc = "notified"]
                            ELSE B.calls[id]],
              !.notified = Append(B.notified, IF B.watchers = <<>> THEN <<>>
                                              ELSE <<Head(B.watchers)>>)]

\* Board.notifyWatchers: resolve every registered watcher, empty the list
notifyWatchers(B) ==
    LET ws == {B.watchers[i] : i \in 1..Len(B.watchers)} IN
    [B EXCEPT !.watchers = <<>>,
              !.calls = [id \in DOMAIN B.calls |->
                            IF id \in ws THEN [B.calls[id] EXCEPT !.pc = "notified"]
                            ELSE B.calls[id]],
              !.notified = Append(B.notified, B.watchers)]

\* notifyCardAvailable with `waiting.pop()`: the youngest waiter is resolved
notifyCardAvailable_Last(B, pos) ==
    LET waiting == B.waitingForCard[pos]
        B1 == [B EXCEPT !.freed = Append(B.freed, pos)]
    IN IF Len(waiting) > 0
       THEN [B1 EXCEPT !.waitingForCard[pos] = SubSeq(waiting, 1, Len(waiting) - 1),
                       !.calls[waiting[Len(waiting)]].pc = "woken",
                       !.woke = Append(B.woke, waiting[Len(waiting)])]
       ELSE B1

\* Board.notifyCardAvailable: shift the first waiter of the position and resolve it
notifyCardAvailable(B, pos) ==
    LET waiting == B.waitingForCard[pos]
        B1 == [B EXCEPT !.freed = Append(B.freed, pos)]
    IN IF Len(waiting) > 0
       THEN [B1 EXCEPT !.waitingForCard[pos] = Tail(waiting),
                       !.calls[Head(waiting)].pc = "woken",
                       !.woke = Append(B.woke, Head(waiting))]
       ELSE B1

\* Board.waitForCard: push the caller's resolver and suspend
waitForCard(B, id, pos) ==
    [B EXCEPT !.waitingForCard[pos] = Append(B.waitingForCard[pos], id),
              !.calls[id].pc = "waiting",
              !.outcome = "suspended"]

\* a call ends: its promise rejects with err / resolves with the board state
Throw(B, id, err) == [B EXCEPT !.calls[id] = NoCall, !.outcome = err]

Return(B, id, playerId) ==
    [B EXCEPT !.calls[id] = NoCall, !.outcome = "ok", !.view = boardStateFor(B, playerId)]

\* Board.flipFirstCard, lines 299-310: Rule 1-B / 1-C, take control
takeControl(B, id, playerId, pos) ==
    LET B1 == IF ~B.grid[pos].faceUp
              THEN notifyWatchers([B EXCEPT !.grid[pos].faceUp = TRUE])
              ELSE B
        B2 == [B1 EXCEPT !.grid[pos].controller = Some(playerId),
                         !.players[playerId].firstCard = pos]
    IN Return(notifyCardAvailable(B2, pos), id, playerId)

\* flipFirstCard with a call of notifyWatchers before the throw of Rule 1-A
flipFirstCard_NoCardNotifies(B, id, playerId, row, column) ==
    IF ~InGrid(row, column) THEN Throw(B, id, "AssertionError")
    ELSE LET pos == <<row, column>>
             spot == B.grid[pos]
         IN IF NoCardAt(spot) THEN Throw(notifyWatchers(B), id, "NoCard")
            ELSE IF spot.controller # Null /\ spot.controller # Some(playerId)
                 THEN waitForCard(B, id, pos)
                 ELSE takeControl(B, id, playerId, pos)

\* flipFirstCard behind a lock that a map holds while it waits for its function
flipFirstCard_WaitsForMap(B, id, playerId, row, column) ==
    IF ~InGrid(row, column) THEN Throw(B, id, "AssertionError")
    ELSE LET pos == <<row, column>>
             spot == B.grid[pos]
         IN IF NoCardAt(spot) THEN Throw(B, id, "NoCard")
            ELSE IF \/ spot.controller # Null /\ spot.controller # Some(playerId)
                    \/ \E m \in DOMAIN B.calls : B.calls[m].pc = "mapping"
                 THEN waitForCard(B, id, pos)
                 ELSE takeControl(B, id, playerId, pos)

\* Board.flipFirstCard up to the await of waitForCard
flipFirstCard(B, id, playerId, row, column) ==
    IF ~InGrid(row, column) THEN Throw(B, id, "AssertionError")
    ELSE LET pos == <<row, column>>
             spot == B.grid[pos]
         IN IF NoCardAt(spot) THEN Throw(B, id, "NoCard")
            ELSE IF spot.controller # Null /\ spot.controller # Some(playerId)
                 THEN waitForCard(B, id, pos)
                 ELSE takeControl(B, id, playerId, pos)

\* flipFirstCard with a `while` in place of the `if` of line 283: a woken flip that
\* finds the spot controlled waits again
flipFirstCardResumed_WaitAgain(B, id, playerId, row, column) ==
    LET pos == <<row, column>>
        spot == B.grid[pos]
    IN IF NoCardAt(spot) THEN Throw(B, id, "NoCard")
       ELSE IF spot.controller # Null /\ spot.controller # Some(playerId)
            THEN waitForCard(B, id, pos)
            ELSE takeControl(B, id, playerId, pos)

\* Board.flipFirstCard after the await of waitForCard (lines 286-310)
flipFirstCardResumed(B, id, playerId, row, column) ==
    LET pos == <<row, column>>
        spot == B.grid[pos]
    IN IF NoCardAt(spot) THEN Throw(B, id, "NoCard")
       ELSE IF spot.controller # Null /\ spot.controller # Some(playerId)
            THEN Throw(B, id, "StillHeld")
            ELSE takeControl(B, id, playerId, pos)

\* the failing second flip without the call of notifyCardAvailable
relinquishFirst_NoWake(B, id, playerId, err) ==
    LET firstCardPos == B.players[playerId].firstCard
    IN Throw([B EXCEPT !.players[playerId].firstCard = NoPos,
                       !.grid[firstCardPos].controller = Null], id, err)

\* the failing second flip without `firstSpot.controller = null`
relinquishFirst_KeepControl(B, id, playerId, err) ==
    LET firstCardPos == B.players[playerId].firstCard
    IN Throw(notifyCardAvailable([B EXCEPT !.players[playerId].firstCard = NoPos], firstCardPos),
             id, err)

\* Board.flipSecondCard, lines 333-337 and 342-346: give up the first card and fail
relinquishFirst(B, id, playerId, err) ==
    LET firstCardPos == B.players[playerId].firstCard
        B1 == [B EXCEPT !.players[playerId].firstCard = NoPos,
                        !.grid[firstCardPos].controller = Null]
    IN Throw(notifyCardAvailable(B1, firstCardPos), id, err)

\* the match branch without `spot.controller = playerId`
keepBoth_NoControl(B, playerId, pos) ==
    [B EXCEPT !.players[playerId].matched = TRUE]

\* Board.flipSecondCard, lines 358-361: the cards match, control the second one too
keepBoth(B, playerId, pos) ==
    [B EXCEPT !.grid[pos].controller = Some(playerId),
              !.players[playerId].matched = TRUE]

\* the no-match branch without the release of the first card
giveUpFirst_KeepControl(B, playerId, firstCardPos) ==
    [B EXCEPT !.players[playerId].matched = FALSE]

\* Board.flipSecondCard, lines 362-368: no match, give up control of the first card
giveUpFirst(B, playerId, firstCardPos) ==
    notifyCardAvailable([B EXCEPT !.players[playerId].matched = FALSE,
                                  !.grid[firstCardPos].controller = Null],
                        firstCardPos)

\* Board.flipSecondCard
flipSecondCard(B, id, playerId, row, column) ==
    IF ~InGrid(row, column) \/ B.players[playerId].firstCard = NoPos
    THEN Throw(B, id, "AssertionError")
    ELSE LET pos == <<row, column>>
             spot == B.grid[pos]
             firstCardPos == B.players[playerId].firstCard
             firstSpot == B.grid[firstCardPos]
         IN IF NoCardAt(spot) THEN relinquishFirst(B, id, playerId, "NoCard")
            ELSE IF spot.controller # Null THEN relinquishFirst(B, id, playerId, "Held")
            ELSE LET B1 == IF ~spot.faceUp
                           THEN notifyWatchers([B EXCEPT !.grid[pos].faceUp = TRUE])
                           ELSE B
                     B2 == [B1 EXCEPT !.players[playerId].secondCard = pos]
                 IN IF firstSpot.card = spot.card
                    THEN Return(keepBoth(B2, playerId, pos), id, playerId)
                    ELSE Return(giveUpFirst(B2, playerId, firstCardPos), id, playerId)

\* Rule 3-B without the test of the controller
turnDown_Controlled(B, pos) ==
    IF B.grid[pos].card # Null /\ B.grid[pos].faceUp
    THEN notifyWatchers([B EXCEPT !.grid[pos].faceUp = FALSE])
    ELSE B

\* Board.finishPreviousPlay, Rule 3-B: turn a card face down if it is there, up, uncontrolled
turnDown(B, pos) ==
    IF B.grid[pos].card # Null /\ B.grid[pos].faceUp /\ B.grid[pos].controller = Null
    THEN notifyWatchers([B EXCEPT !.grid[pos].faceUp = FALSE])
    ELSE B

\* Rule 3-A without the call of notifyWatchers
removePair_Silent(B, first, second) ==
    LET B1 == [B EXCEPT !.grid[first] = [card |-> Null, faceUp |-> FALSE, controller |-> Null]]
        B2 == [B1 EXCEPT !.grid[second] = [card |-> Null, faceUp |-> FALSE, controller |-> Null]]
    IN notifyCardAvailable(notifyCardAvailable(B2, first), second)

\* Board.finishPreviousPlay, Rule 3-A: remove the matched pair, notify, wake one waiter of each
removePair(B, first, second) ==
    LET B1 == [B EXCEPT !.grid[first] = [card |-> Null, faceUp |-> FALSE, controller |-> Null]]
        B2 == [B1 EXCEPT !.grid[second] = [card |-> Null, faceUp |-> FALSE, controller |-> Null]]
    IN notifyCardAvailable(notifyCardAvailable(notifyWatchers(B2), first), second)

\* the branch of finishPreviousPlay that a player state takes
previousPlay(ps) ==
    IF ps.firstCard = NoPos THEN "none"
    ELSE IF ps.matched /\ ps.secondCard # NoPos THEN "matched"
    ELSE IF ps.secondCard # NoPos THEN "missed"
    ELSE "single"

\* Board.finishPreviousPlay
finishPreviousPlay(B, playerId) ==
    LET ps == B.players[playerId] IN
    IF ps.firstCard = NoPos THEN B
    ELSE LET B1 == IF ps.matched /\ ps.secondCard # NoPos
                   THEN removePair(B, ps.firstCard, ps.secondCard)
                   ELSE IF ps.secondCard # NoPos
                        THEN turnDown(turnDown(B, ps.firstCard), ps.secondCard)
                        ELSE turnDown(B, ps.firstCard)
         IN [B1 EXCEPT !.players[playerId] = PlayerState]

\* the dispatch with coordinates taken modulo the dimensions
flipDispatch_Wrapped(B, id, playerId, row, column) ==
    IF B.players[playerId].firstCard = NoPos
    THEN flipFirstCard(B, id, playerId, row % rows, column % columns)
    ELSE flipSecondCard(B, id, playerId, row % rows, column % columns)

\* the dispatch decided before the await of finishPreviousPlay: a flip that cleaned up
\* a previous play goes on as a second flip
flipDispatch_Stale(B, id, playerId, row, column) ==
    IF B.players[playerId].firstCard = NoPos /\ B.calls[id].play \notin {"matched", "missed"}
    THEN flipFirstCard(B, id, playerId, row, column)
    ELSE flipSecondCard(B, id, playerId, row, column)

\* Board.flip, lines 179-185: first or second card
flipDispatch(B, id, playerId, row, column) ==
    IF B.players[playerId].firstCard = NoPos
    THEN flipFirstCard(B, id, playerId, row, column)
    ELSE flipSecondCard(B, id, playerId, row, column)

\* Board.flip up to its first await
flip(B, id, playerId, row, column) ==
    LET B0 == ensurePlayer(B, playerId)
        ps == B0.players[playerId]
    IN IF ps.matched \/ (ps.firstCard # NoPos /\ ps.secondCard # NoPos)
       THEN [finishPreviousPlay(B0, playerId) EXCEPT !.calls[id].pc = "finished",
                                                     !.calls[id].play = previousPlay(ps)]
       ELSE flipDispatch(B0, id, playerId, row, column)

\* look with a call of notifyWatchers
look_Notifies(B, id, playerId) == Return(notifyWatchers(ensurePlayer(B, playerId)), id, playerId)

\* Board.look
look(B, id, playerId) == Return(ensurePlayer(B, playerId), id, playerId)

\* Board.map, lines 198-206: the distinct non-empty cards, in the order a Set keeps them
RECURSIVE uniqueCardsFrom(_, _, _)
uniqueCardsFrom(g, i, seen) ==
    IF i > rows * columns THEN seen
    ELSE LET card == g[<<(i - 1) \div columns, (i - 1) % columns>>].card
         IN IF card # Null /\ card # Some("") /\ \A k \in 1..Len(seen) : seen[k] # card[1]
            THEN uniqueCardsFrom(g, i + 1, Append(seen, card[1]))
            ELSE uniqueCardsFrom(g, i + 1, seen)

\* the cards of all spots that have one, with an array in place of the Set
uniqueCards_Array(g) ==
    LET all == [i \in 1..(rows * columns) |-> g[<<(i - 1) \div columns, (i - 1) % columns>>].card]
        HasCard(card) == card # Null /\ card # Some("")
        kept == SelectSeq(all, HasCard)
    IN [i \in 1..Len(kept) |-> kept[i][1]]

uniqueCards(g) == uniqueCardsFrom(g, 1, <<>>)

\* the relabeling functions callers pass to map: what f(card) resolves to
Relabel(f, card) ==
    CASE f = "identity" -> card
      [] f = "swap" -> (IF card = "A" THEN "B" ELSE IF card = "B" THEN "A" ELSE card)
      [] f = "merge" -> "A"
      [] f = "blank" -> (IF card = "A" THEN "" ELSE card)
      [] OTHER -> "B"

\* whether the promise f(card) rejects
Rejects(f, card) == f = "failB" /\ card = "B"

\* replacements.get(card): the index of card among the collected cards, 0 when undefined
ReplacementIndex(cards, card) ==
    IF \E k \in 1..Len(cards) : cards[k] = card
    THEN CHOOSE k \in 1..Len(cards) : cards[k] = card
    ELSE 0

\* the rewriting that stops after the first spot of each card
applyReplacements_FirstOnly(g, cards, repl) ==
    [pos \in DOMAIN g |->
        LET spot == g[pos]
            k == IF spot.card # Null /\ spot.card # Some("") THEN ReplacementIndex(cards, spot.card[1]) ELSE 0
            first == \A other \in DOMAIN g :
                        g[other].card = spot.card =>
                            pos[1] * columns + pos[2] <= other[1] * columns + other[2]
        IN IF k # 0 /\ Some(repl[k]) # spot.card /\ first THEN [spot EXCEPT !.card = Some(repl[k])] ELSE spot]

\* the rewriting that gives a spot whose card was not collected the first collected card
applyReplacements_Uncollected(g, cards, repl) ==
    [pos \in DOMAIN g |->
        LET spot == g[pos]
            k == IF spot.card # Null /\ spot.card # Some("") THEN ReplacementIndex(cards, spot.card[1]) ELSE 0
        IN IF k # 0 /\ Some(repl[k]) # spot.card THEN [spot EXCEPT !.card = Some(repl[k])]
           ELSE IF k = 0 /\ spot.card # Null /\ cards # <<>> THEN [spot EXCEPT !.card = Some(cards[1])]
           ELSE spot]

\* the rewriting that also fills the spots without a card with the first replacement
applyReplacements_Refills(g, cards, repl) ==
    [pos \in DOMAIN g |->
        LET spot == g[pos]
            k == IF spot.card # Null /\ spot.card # Some("") THEN ReplacementIndex(cards, spot.card[1]) ELSE 0
        IN IF k # 0 /\ Some(repl[k]) # spot.card THEN [spot EXCEPT !.card = Some(repl[k])]
           ELSE IF NoCardAt(spot) /\ repl # <<>> THEN [spot EXCEPT !.card = Some(repl[1])]
           ELSE spot]

\* Board.map, lines 214-226: rewrite every spot whose card has a different replacement
applyReplacements(g, cards, repl) ==
    [pos \in DOMAIN g |->
        LET spot == g[pos]
            k == IF spot.card # Null /\ spot.card # Some("") THEN ReplacementIndex(cards, spot.card[1]) ELSE 0
        IN IF k # 0 /\ Some(repl[k]) # spot.card THEN [spot EXCEPT !.card = Some(repl[k])] ELSE spot]

\* the apply step that also releases the spots it rewrites
mapFinish_Releases(B, id, playerId, cards, repl) ==
    LET g == applyReplacements(B.grid, cards, repl)
        released == [pos \in DOMAIN g |->
                        IF g[pos] # B.grid[pos] THEN [g[pos] EXCEPT !.controller = Null]
                        ELSE g[pos]]
        B1 == [B EXCEPT !.grid = released]
    IN Return(IF g # B.grid THEN notifyWatchers(B1) ELSE B1, id, playerId)

\* the apply step without the test of `changed`
mapFinish_AlwaysNotifies(B, id, playerId, cards, repl) ==
    LET g == applyReplacements(B.grid, cards, repl)
    IN Return(notifyWatchers([B EXCEPT !.grid = g]), id, playerId)

\* Board.map, lines 214-232: apply, notify the watchers if a card changed, return
mapFinish(B, id, playerId, cards, repl) ==
    LET g == applyReplacements(B.grid, cards, repl)
        B1 == [B EXCEPT !.grid = g]
    IN Return(IF g # B.grid THEN notifyWatchers(B1) ELSE B1, id, playerId)

\* Board.map up to its first await: collect the cards, call f on the first
map(B, id, playerId) ==
    LET B0 == ensurePlayer(B, playerId)
        cards == uniqueCards(B0.grid)
    IN IF cards = <<>> THEN mapFinish(B0, id, playerId, cards, <<>>)
       ELSE [B0 EXCEPT !.calls[id].pc = "mapping", !.calls[id].cards = cards]

\* the continuation that applies the replacements it has when the function fails
mapResumed_AppliesPartial(B, id) ==
    LET c == B.calls[id]
        card == c.cards[Len(c.repl) + 1]
        repl == Append(c.repl, Relabel(c.f, card))
    IN IF Rejects(c.f, card)
       THEN Throw([B EXCEPT !.grid = applyReplacements(B.grid, SubSeq(c.cards, 1, Len(c.repl)),
                                                       c.repl)], id, "rejected")
       ELSE IF Len(repl) = Len(c.cards) THEN mapFinish(B, id, c.player, c.cards, repl)
       ELSE [B EXCEPT !.calls[id].repl = repl]

\* Board.map after one `await f(card)`: record the replacement, go on or apply
mapResumed(B, id) ==
    LET c == B.calls[id]
        card == c.cards[Len(c.repl) + 1]
        repl == Append(c.repl, Relabel(c.f, card))
    IN IF Rejects(c.f, card) THEN Throw(B, id, "rejected")
       ELSE IF Len(repl) = Len(c.cards) THEN mapFinish(B, id, c.player, c.cards, repl)
       ELSE [B EXCEPT !.calls[id].repl = repl]

\* Board.watch up to its await: register the resolver
watch(B, id, playerId) ==
    [ensurePlayer(B, playerId) EXCEPT !.watchers = Append(@, id),
                                      !.calls[id].pc = "watching",
                                      !.outcome = "suspended"]

\* Board.watch after its await
watchResumed(B, id, playerId) == Return(B, id, playerId)

----------------------------------------------------------------------------
(* Actions *)

FreeIds == {id \in 1..env.maxCalls : calls[id].pc = "free"}

\* Player ids are opaque strings compared by equality only, so the ids are taken in the
\* order of their first call: a caller is a registered player or the next new id.
Callers ==
    {playerId \in env.players :
        \/ playerId \in DOMAIN players
        \/ playerId = PlayerName(Cardinality(DOMAIN players) + 1)}
NextId == CHOOSE id \in FreeIds : \A other \in FreeIds : id <= other

Begin(op, playerId, row, column, f) ==
    [Cur EXCEPT !.calls[NextId] =
        [NoCall EXCEPT !.op = op, !.player = playerId, !.row = row, !.column = column,
                       !.pc = "running", !.f = f]]

Commit(B, step, id) ==
    /\ grid' = B.grid
    /\ players' = B.players
    /\ waitingForCard' = B.waitingForCard
    /\ watchers' = B.watchers
    /\ calls' = B.calls
    /\ ev' = [step |-> step, call |-> id, player |-> calls[id].player,
              row |-> calls[id].row, column |-> calls[id].column, f |-> calls[id].f,
              outcome |-> B.outcome, freed |-> B.freed, woke |-> B.woke,
              notified |-> B.notified, view |-> B.view]
    /\ UNCHANGED <<rows, columns, env>>

CommitNew(B, step, playerId, row, column, f) ==
    /\ grid' = B.grid
    /\ players' = B.players
    /\ waitingForCard' = B.waitingForCard
    /\ watchers' = B.watchers
    /\ calls' = B.calls
    /\ ev' = [step |-> step, call |-> NextId, player |-> playerId,
              row |-> row, column |-> column, f |-> f,
              outcome |-> B.outcome, freed |-> B.freed, woke |-> B.woke,
              notified |-> B.notified, view |-> B.view]
    /\ UNCHANGED <<rows, columns, env>>

\* a caller issues look(playerId)
CallLook ==
    /\ FreeIds # {}
    /\ \E playerId \in Callers :
          CommitNew(look(Begin("look", playerId, 0, 0, NoFunction), NextId, playerId),
                    "look", playerId, 0, 0, NoFunction)

\* the coordinates callers pass: every spot and, where env.outside, one row and one column
\* outside the grid
Targets ==
    ((0..(rows - 1)) \X (0..(columns - 1))) \cup
    (IF env.outside THEN {<<rows, 0>>, <<0, columns>>} ELSE {})

\* a caller may issue flip(playerId, ..) while another flip of playerId is in flight only
\* if playerId is one of env.reentrant
MayFlip(playerId) ==
    \/ playerId \in env.reentrant
    \/ \A id \in CallIds : ~(calls[id].op = "flip" /\ calls[id].player = playerId)

\* a caller issues flip(playerId, row, column)
CallFlipBy(playerId) ==
    /\ FreeIds # {}
    /\ playerId \in Callers
    /\ MayFlip(playerId)
    /\ \E pos \in Targets :
          \E B \in {flip(Begin("flip", playerId, pos[1], pos[2], NoFunction), NextId, playerId, pos[1], pos[2])} :
              CommitNew(B, "flip", playerId, pos[1], pos[2], NoFunction)

CallFlip == \E playerId \in PlayerIds : CallFlipBy(playerId)

\* the continuation of flip after `await this.finishPreviousPlay(playerId)`
FlipAfterFinishOf(id) ==
    /\ calls[id].pc = "finished"
    /\ \E B \in {flipDispatch(Cur, id, calls[id].player, calls[id].row, calls[id].column)} :
          Commit(B, "flipAfterFinish", id)

FlipAfterFinish == \E id \in CallIds : FlipAfterFinishOf(id)

\* the continuation of flipFirstCard after `await this.waitForCard(row, column)`
FlipWokenOf(id) ==
    /\ calls[id].pc = "woken"
    /\ \E B \in {flipFirstCardResumed(Cur, id, calls[id].player, calls[id].row, calls[id].column)} :
          Commit(B, "flipWoken", id)

FlipWoken == \E id \in CallIds : FlipWokenOf(id)

\* a caller issues map(playerId, f)
CallMap ==
    /\ FreeIds # {}
    /\ \E playerId \in Callers, f \in env.fs :
          CommitNew(map(Begin("map", playerId, 0, 0, f), NextId, playerId), "map", playerId, 0, 0, f)

\* the promise of one f(card) settles and map goes on
MapResumedOf(id) ==
    /\ calls[id].pc = "mapping"
    /\ \E B \in {mapResumed(Cur, id)} : Commit(B, "mapResumed", id)

MapResumed == \E id \in CallIds : MapResumedOf(id)

\* a caller issues watch(playerId)
CallWatch ==
    /\ FreeIds # {}
    /\ \E playerId \in Callers :
          CommitNew(watch(Begin("watch", playerId, 0, 0, NoFunction), NextId, playerId),
                    "watch", playerId, 0, 0, NoFunction)

\* the continuation of a watch that notifyWatchers resolved
WatchResumed ==
    \E id \in CallIds :
        /\ calls[id].pc = "notified"
        /\ Commit(watchResumed(Cur, id, calls[id].player), "watchResumed", id)

----------------------------------------------------------------------------
(* Specifications *)

\* the board files: one row of cards
Board1x2AB == [rows |-> 1, columns |-> 2, cards |-> <<"A", "B">>]
Board1x2AA == [rows |-> 1, columns |-> 2, cards |-> <<"A", "A">>]
Board1x3 == [rows |-> 1, columns |-> 3, cards |-> <<"A", "A", "B">>]

\* Board.parseFromFile / the constructor: the state of a new board
InitBoard(b) ==
    /\ rows = b.rows
    /\ columns = b.columns
    /\ grid = NewGrid(b.rows, b.columns, b.cards)
    /\ players = <<>>
    /\ waitingForCard = [pos \in (0..(b.rows - 1)) \X (0..(b.columns - 1)) |-> <<>>]
    /\ watchers = <<>>
    /\ calls = [id \in CallIds |-> NoCall]
    /\ ev = [step |-> "new", call |-> 0, player |-> NoCaller, row |-> 0, column |-> 0,
             f |-> NoFunction, outcome |-> "ok", freed |-> <<>>, woke |-> <<>>,
             notified |-> <<>>, view |-> <<>>]

\* Spec: flips by players that each let their flip end before they issue the next one
Init ==
    /\ \E b \in {Board1x2AA, Board1x2AB} : InitBoard(b)
    /\ env = [players |-> PlayersUpTo(NumPlayers), reentrant |-> {}, maxCalls |-> MaxCalls,
              outside |-> FALSE, fs |-> {}]

Next ==
    \/ CallFlip
    \/ FlipAfterFinish
    \/ FlipWoken

Spec == Init /\ [][Next]_vars

\* SpecReentrant: flips by players that may issue a flip while another one of theirs is in flight
InitReentrant ==
    /\ \E b \in {Board1x2AB, Board1x2AA} : InitBoard(b)
    /\ env = [players |-> PlayersUpTo(NumPlayers), reentrant |-> PlayersUpTo(NumPlayers),
              maxCalls |-> MaxCalls, outside |-> FALSE, fs |-> {}]

SpecReentrant == InitReentrant /\ [][Next]_vars

\* SpecQueue: three sequential players, so that two flips can wait on one card
InitQueue ==
    /\ InitBoard(Board1x2AA)
    /\ env = [players |-> PlayersUpTo(NumQueuePlayers), reentrant |-> {},
              maxCalls |-> MaxQueueCalls, outside |-> FALSE, fs |-> {}]

SpecQueue == InitQueue /\ [][Next]_vars

\* SpecQueueFair: SpecQueue where every ready continuation runs (the microtask queue is
\* drained).  Nothing makes a caller call: a player may stop flipping at any time,
\* holding what it holds.
Fairness ==
    \A id \in CallIds : WF_vars(FlipAfterFinishOf(id)) /\ WF_vars(FlipWokenOf(id))

SpecQueueFair == InitQueue /\ [][Next]_vars /\ Fairness

\* SpecAll: look, flip, map and watch
InitAll ==
    /\ \E b \in {Board1x2AB} : InitBoard(b)
    /\ env = [players |-> PlayersUpTo(NumPlayers), reentrant |-> {}, maxCalls |-> MaxCalls,
              outside |-> FALSE, fs |-> {"blank"}]

NextAll ==
    \/ CallLook
    \/ CallFlip
    \/ FlipAfterFinish
    \/ FlipWoken
    \/ CallMap
    \/ MapResumed
    \/ CallWatch
    \/ WatchResumed

SpecAll == InitAll /\ [][NextAll]_vars

\* SpecOutside: sequential flips, also at coordinates outside the grid
InitOutside ==
    /\ \E b \in {Board1x2AA, Board1x2AB} : InitBoard(b)
    /\ env = [players |-> PlayersUpTo(NumPlayers), reentrant |-> {}, maxCalls |-> MaxCalls,
              outside |-> TRUE, fs |-> {}]

SpecOutside == InitOutside /\ [][Next]_vars

\* SpecWatch: sequential flips and watch calls
InitWatch ==
    /\ InitBoard(Board1x2AA)
    /\ env = [players |-> PlayersUpTo(NumPlayers), reentrant |-> {}, maxCalls |-> MaxCalls,
              outside |-> FALSE, fs |-> {}]

NextWatch ==
    \/ CallFlip
    \/ FlipAfterFinish
    \/ FlipWoken
    \/ CallWatch
    \/ WatchResumed

SpecWatch == InitWatch /\ [][NextWatch]_vars

\* SpecWatchers: sequential flips and several watch calls at a time
InitWatchers ==
    /\ InitBoard(Board1x2AA)
    /\ env = [players |-> PlayersUpTo(NumPlayers), reentrant |-> {},
              maxCalls |-> MaxQueueCalls, outside |-> FALSE, fs |-> {}]

SpecWatchers == InitWatchers /\ [][NextWatch]_vars

\* SpecRender: looks on the boards that the sequential flips of two players leave, on a
\* board of one row and on a board of two rows whose row-major and column-major orders
\* differ
Board2x2 == [rows |-> 2, columns |-> 2, cards |-> <<"A", "B", "A", "B">>]
RenderPlayers == {"p1", "p2"}

InitRender ==
    /\ \E b \in {Board1x2AB, Board2x2} : InitBoard(b)
    /\ env = [players |-> RenderPlayers, reentrant |-> {}, maxCalls |-> MaxCalls,
              outside |-> FALSE, fs |-> {}]

NextRender ==
    \/ CallLook
    \/ CallFlip
    \/ FlipAfterFinish
    \/ FlipWoken

SpecRender == InitRender /\ [][NextRender]_vars

\* SpecLook: sequential flips, watch calls and looks
InitLook ==
    /\ InitBoard(Board1x2AA)
    /\ env = [players |-> PlayersUpTo(NumPlayers), reentrant |-> {}, maxCalls |-> MaxCalls,
              outside |-> FALSE, fs |-> {}]

NextLook ==
    \/ CallLook
    \/ CallFlip
    \/ FlipAfterFinish
    \/ FlipWoken
    \/ CallWatch
    \/ WatchResumed

SpecLook == InitLook /\ [][NextLook]_vars

\* SpecMapFlip: maps that swap the labels A and B, interleaved with sequential flips
InitMapFlip ==
    /\ InitBoard(Board1x2AA)
    /\ env = [players |-> PlayersUpTo(NumPlayers), reentrant |-> {}, maxCalls |-> MaxCalls,
              outside |-> FALSE, fs |-> {"swap"}]

NextMapFlip ==
    \/ CallMap
    \/ MapResumed
    \/ CallFlip
    \/ FlipAfterFinish
    \/ FlipWoken

SpecMapFlip == InitMapFlip /\ [][NextMapFlip]_vars

\* SpecMapWatch: maps with the identity, with the swap of A and B and with a function that
\* fails on B, and watch calls
InitMapWatch ==
    /\ InitBoard(Board1x2AB)
    /\ env = [players |-> PlayersUpTo(NumPlayers), reentrant |-> {}, maxCalls |-> MaxCalls,
              outside |-> FALSE, fs |-> {"identity", "swap", "failB"}]

NextMapWatch ==
    \/ CallMap
    \/ MapResumed
    \/ CallWatch
    \/ WatchResumed

SpecMapWatch == InitMapWatch /\ [][NextMapWatch]_vars

\* SpecNotify: flips, maps and watch calls
InitNotify == InitMapFlip

NextNotify ==
    \/ CallFlip
    \/ FlipAfterFinish
    \/ FlipWoken
    \/ CallMap
    \/ MapResumed
    \/ CallWatch
    \/ WatchResumed

SpecNotify == InitNotify /\ [][NextNotify]_vars

\* SpecMapLook: SpecMapFlip with looks
InitMapLook == InitMapFlip

NextMapLook ==
    \/ CallLook
    \/ CallMap
    \/ MapResumed
    \/ CallFlip
    \/ FlipAfterFinish
    \/ FlipWoken

SpecMapLook == InitMapLook /\ [][NextMapLook]_vars

\* SpecThree: sequential flips on a board where a card is left after a pair is removed
InitThree ==
    /\ InitBoard(Board1x3)
    /\ env = [players |-> PlayersUpTo(NumPlayers), reentrant |-> {}, maxCalls |-> MaxCalls,
              outside |-> FALSE, fs |-> {}]

SpecThree == InitThree /\ [][Next]_vars

\* SpecReentrantThree: the same board, the first player may overlap its flips
InitReentrantThree ==
    /\ InitBoard(Board1x3)
    /\ env = [players |-> PlayersUpTo(NumPlayers), reentrant |-> {PlayerName(1)},
              maxCalls |-> MaxCalls, outside |-> FALSE, fs |-> {}]

SpecReentrantThree == InitReentrantThree /\ [][Next]_vars

----------------------------------------------------------------------------
(* Claims *)

Positions == DOMAIN grid
HeldBy(playerId) == {pos \in Positions : grid[pos].controller = Some(playerId)}
FirstSecond(playerId) ==
    IF playerId \in DOMAIN players
    THEN {pos \in Positions : pos = players[playerId].firstCard \/ pos = players[playerId].secondCard}
    ELSE {}
Waiters == {id \in CallIds : calls[id].pc = "waiting"}

\* C1: in every reachable state a spot with no card is face down and has no controller,
\* and a spot with a controller is face up and has a card.
C1_SpotsConsistent ==
    \A pos \in Positions :
        /\ NoCardAt(grid[pos]) => (~grid[pos].faceUp /\ grid[pos].controller = Null)
        /\ grid[pos].controller # Null => (grid[pos].faceUp /\ ~NoCardAt(grid[pos]))

\* C2: in every reachable state a player controls at most two spots, and no spot other than
\* the one at its firstCard and the one at its secondCard.
C2_HoldsOnlyFirstSecond ==
    \A playerId \in PlayerIds :
        /\ Cardinality(HeldBy(playerId)) <= 2
        /\ HeldBy(playerId) \subseteq FirstSecond(playerId)

\* C3: in every reachable state the controller of a spot is a registered player whose
\* firstCard or secondCard is that spot.
C3_ControllerRegistered ==
    \A pos \in Positions :
        grid[pos].controller # Null =>
            /\ grid[pos].controller[1] \in DOMAIN players
            /\ \/ players[grid[pos].controller[1]].firstCard = pos
               \/ players[grid[pos].controller[1]].secondCard = pos

\* a flip of playerId is suspended on a spot that other controls
WaitsFor(playerId, other) ==
    \E id \in Waiters :
        /\ calls[id].player = playerId
        /\ grid[<<calls[id].row, calls[id].column>>].controller = Some(other)

\* the spot a flip in flight is for
Target(id) == <<calls[id].row, calls[id].column>>

\* every player that holds a card gives it up again
HoldersRelease == \A playerId \in PlayersUpTo(NumQueuePlayers) : []<>(HeldBy(playerId) = {})

\* C4: in a behaviour in which every player that holds a card gives it up again, a flip
\* suspended on a wait queue is eventually woken: it does not stay suspended for ever.
C4_WaiterEventuallyWoken ==
    HoldersRelease => \A id \in CallIds : []<>(calls[id].pc # "waiting")

\* C5: a flip that is suspended on a spot whose card was removed is eventually woken and
\* then fails with NoCard.
C5_RemovedCardWaitersFail ==
    \A id \in CallIds :
        (calls[id].pc = "waiting" /\ grid[Target(id)].card = Null)
            ~> (ev.step = "flipWoken" /\ ev.call = id /\ ev.outcome = "NoCard")

\* the place of a call among the calls a step woke, 0 if the step did not wake it
WokeIndex(woke, id) ==
    IF \E k \in 1..Len(woke) : woke[k] = id
    THEN CHOOSE k \in 1..Len(woke) : woke[k] = id
    ELSE 0

\* what a step may do to the queue of pos: leave it, add the flip that suspends to its
\* end, or take its oldest entries off, each of them woken, the older before the younger
C6_QueueStep(pos) ==
    LET q == waitingForCard[pos]
        q2 == waitingForCard'[pos]
    IN \/ q2 = q
       \/ \E id \in CallIds :
             /\ q2 = Append(q, id)
             /\ calls[id].pc # "waiting"
             /\ calls'[id].pc = "waiting"
             /\ <<calls'[id].row, calls'[id].column>> = pos
       \/ \E k \in 1..Len(q) :
             /\ q2 = SubSeq(q, k + 1, Len(q))
             /\ \A i \in 1..k :
                   /\ calls'[q[i]].pc = "woken"
                   /\ WokeIndex(ev'.woke, q[i]) # 0
                   /\ \A j \in 1..k :
                         i < j => WokeIndex(ev'.woke, q[i]) < WokeIndex(ev'.woke, q[j])

\* the queue of a spot holds the flips suspended on it, each once
C6_Queued ==
    \A pos \in Positions :
        /\ \A i \in 1..Len(waitingForCard[pos]) :
              /\ calls[waitingForCard[pos][i]].pc = "waiting"
              /\ Target(waitingForCard[pos][i]) = pos
              /\ \A j \in 1..Len(waitingForCard[pos]) :
                    waitingForCard[pos][i] = waitingForCard[pos][j] => i = j
        /\ \A id \in Waiters :
              Target(id) = pos => \E i \in 1..Len(waitingForCard[pos]) : waitingForCard[pos][i] = id

\* C6: the wait queue of a spot is first in, first out: a flip that suspends goes to the
\* end of the queue, a wake takes the oldest entry off it, and a flip leaves the
\* suspended state only woken from the head; so of two flips queued on one spot the
\* older is woken before the younger.
C6_FifoWake ==
    [][ /\ C6_Queued
        /\ \A pos \in Positions : C6_QueueStep(pos)
        /\ \A id \in CallIds :
              (calls[id].pc = "waiting" /\ calls'[id].pc # "waiting") =>
                  /\ calls'[id].pc = "woken"
                  /\ \A i \in 1..Len(waitingForCard'[Target(id)]) :
                        waitingForCard'[Target(id)][i] # id ]_vars

\* a wake took the oldest of two or more queued flips and left the younger queued
C6_Witness ==
    \E pos \in Positions :
        /\ waitingForCard[pos] # <<>>
        /\ \E id \in CallIds :
              /\ calls[id].pc = "woken"
              /\ Target(id) = pos
              /\ \E k \in 1..Len(ev.woke) : ev.woke[k] = id

\* a flip that was suspended on pos and has not run on since
Pending(pos) ==
    {id \in CallIds : calls[id].pc \in {"waiting", "woken"} /\ Target(id) = pos}

\* C7: a flip that is issued while a flip suspended on a spot has not yet run on does not
\* become the controller of that spot.
C7_NoQueueJump ==
    [][ \A pos \in Positions :
            (ev'.step = "flip" /\ Pending(pos) # {} /\ grid[pos].controller = Null)
                => grid'[pos].controller = Null ]_vars

\* C8: no player controls a spot while one of its flips is suspended on a wait queue, so
\* no two players each wait for a spot the other controls.
C8_NoWaitCycle ==
    /\ \A id \in Waiters : HeldBy(calls[id].player) = {}
    /\ \A p1 \in PlayerIds, p2 \in PlayerIds :
          p1 # p2 => ~(WaitsFor(p1, p2) /\ WaitsFor(p2, p1))

\* C9: the continuation of a woken flip ends the flip in that one step: with NoCard if
\* the spot has no card, with StillHeld if another player controls it, and otherwise
\* with the caller controlling the spot, face up; the flip is in no queue afterwards.
C9_WokenRechecksOnce ==
    [][ \A id \in CallIds :
            (calls[id].pc = "woken" /\ calls'[id] # calls[id]) =>
                LET pos == Target(id)
                    playerId == calls[id].player
                IN /\ ev'.step = "flipWoken" /\ ev'.call = id
                   /\ calls'[id].pc = "free"
                   /\ \A other \in Positions :
                         \A i \in 1..Len(waitingForCard'[other]) : waitingForCard'[other][i] # id
                   /\ IF NoCardAt(grid[pos])
                      THEN ev'.outcome = "NoCard" /\ grid' = grid /\ players' = players
                      ELSE IF grid[pos].controller # Null /\ grid[pos].controller # Some(playerId)
                      THEN ev'.outcome = "StillHeld" /\ grid' = grid /\ players' = players
                      ELSE /\ ev'.outcome = "ok"
                           /\ grid'[pos].controller = Some(playerId)
                           /\ grid'[pos].faceUp
                           /\ players'[playerId].firstCard = pos ]_vars

\* a woken flip found its spot free, after a second flip that did not match gave it up,
\* and took it
C9_Witness ==
    /\ ev.step = "flipWoken"
    /\ ev.outcome = "ok"
    /\ calls[ev.call].pc = "free"
    /\ grid[<<ev.row, ev.column>>].controller = Some(ev.player)
    /\ grid[<<ev.row, ev.column>>].faceUp
    /\ players[ev.player].firstCard = <<ev.row, ev.column>>
    /\ \E other \in DOMAIN players \ {ev.player} :
          /\ players[other].firstCard = <<ev.row, ev.column>>
          /\ players[other].secondCard # NoPos
          /\ ~players[other].matched
          /\ grid[players[other].secondCard].card # grid[<<ev.row, ev.column>>].card
          /\ grid[players[other].secondCard].faceUp

\* Board.flip, line 175: the test that sends a flip to finishPreviousPlay before its
\* first-or-second test; a player seen for the first time has no previous play
HasPreviousPlay(playerId) ==
    /\ playerId \in DOMAIN players
    /\ \/ players[playerId].matched
       \/ players[playerId].firstCard # NoPos /\ players[playerId].secondCard # NoPos

\* the step that follows runs the first-or-second test of line 179: it begins a flip
\* that has no previous play to finish, or continues one after finishPreviousPlay
Dispatches ==
    \/ ev'.step = "flipAfterFinish"
    \/ ev'.step = "flip" /\ ~HasPreviousPlay(ev'.player)

\* Board.flip, line 179: `playerState.firstCard === null`, the flip is a first flip
Idle(playerId) ==
    \/ playerId \notin DOMAIN players
    \/ players[playerId].firstCard = NoPos

\* the step that follows is a first flip at pos
FirstFlipAt(pos) ==
    /\ Dispatches
    /\ <<ev'.row, ev'.column>> = pos
    /\ Idle(ev'.player)

\* C10: a flip by a player without a first card on a spot that has a card and no
\* controller ends in the step that finds the spot so: the spot is face up and controlled by the
\* caller, the caller's firstCard is the spot and its secondCard is unset, and the oldest
\* flip suspended on the spot, if there is one, is woken.
C10_FirstFlipOnFreeSpot ==
    [][ \A pos \in Positions :
            (/\ FirstFlipAt(pos)
             /\ ~NoCardAt(grid[pos])
             /\ grid[pos].controller = Null)
            => /\ ev'.outcome = "ok"
               /\ calls'[ev'.call].pc = "free"
               /\ grid'[pos].faceUp
               /\ grid'[pos].controller = Some(ev'.player)
               /\ players'[ev'.player].firstCard = pos
               /\ players'[ev'.player].secondCard = NoPos
               /\ waitingForCard[pos] # <<>> =>
                     /\ calls'[Head(waitingForCard[pos])].pc = "woken"
                     /\ waitingForCard'[pos] = Tail(waitingForCard[pos]) ]_vars

\* Board.flip, lines 179-184: `playerState.firstCard !== null`, the flip is a second flip
InS1(playerId) ==
    /\ playerId \in DOMAIN players
    /\ players[playerId].firstCard # NoPos

\* the step that follows is a second flip at pos
SecondFlipAt(pos) ==
    /\ Dispatches
    /\ <<ev'.row, ev'.column>> = pos
    /\ InS1(ev'.player)

\* Board.flipFirstCard, lines 303-305: what the first flip that returned gave its player,
\* a firstCard and the control of that spot
HoldsFirst(playerId) ==
    /\ playerId \in DOMAIN players
    /\ players[playerId].firstCard # NoPos
    /\ grid[players[playerId].firstCard].controller = Some(playerId)

\* the step that follows is a second flip at pos by a player that holds its first card
SecondFlipOfHolderAt(pos) == SecondFlipAt(pos) /\ HoldsFirst(ev'.player)

\* C11: a second flip, by a player that holds its first card, on an uncontrolled spot
\* whose card equals the first card returns
\* with both spots face up and controlled by the caller, secondCard the target, matched
\* true, the first card kept, no other controller changed and no waiter woken.
C11_SecondFlipMatch ==
    [][ \A pos \in Positions :
            (/\ SecondFlipOfHolderAt(pos)
             /\ ~NoCardAt(grid[pos])
             /\ grid[pos].controller = Null
             /\ grid[pos].card = grid[players[ev'.player].firstCard].card)
            => LET playerId == ev'.player
                   first == players[playerId].firstCard
               IN /\ ev'.outcome = "ok"
                  /\ grid'[pos].faceUp /\ grid'[pos].controller = Some(playerId)
                  /\ grid'[first].faceUp /\ grid'[first].controller = Some(playerId)
                  /\ players'[playerId] = [firstCard |-> first, secondCard |-> pos, matched |-> TRUE]
                  /\ \A other \in Positions \ {pos} : grid'[other] = grid[other]
                  /\ waitingForCard' = waitingForCard
                  /\ ev'.woke = <<>> ]_vars

\* a second flip found the equal card and the caller controls the pair
C11_Witness ==
    /\ ev.step = "flip"
    /\ ev.outcome = "ok"
    /\ players[ev.player].matched
    /\ players[ev.player].secondCard = <<ev.row, ev.column>>
    /\ players[ev.player].firstCard # <<ev.row, ev.column>>
    /\ grid[players[ev.player].firstCard].controller = Some(ev.player)
    /\ grid[players[ev.player].secondCard].controller = Some(ev.player)

\* Board.finishPreviousPlay, lines 380 and 389: the test of Rule 3-A, a first card and
\* `playerState.matched && playerState.secondCard !== null`
InS2Match(playerId) ==
    /\ playerId \in DOMAIN players
    /\ players[playerId].firstCard # NoPos
    /\ players[playerId].matched
    /\ players[playerId].secondCard # NoPos

\* C12: when a player with a matched pair (the test of Rule 3-A) calls flip, both spots
\* of the pair lose their card, are face down and uncontrolled, the oldest flip suspended on each of them is woken and the
\* player state is reset; the flip is then dispatched as a first flip (the player has no
\* first card when the call continues).
C12_MatchedPairRemoved ==
    [][ /\ (ev'.step = "flip" /\ InS2Match(ev'.player)) =>
            LET playerId == ev'.player IN
            /\ \A pos \in {players[playerId].firstCard, players[playerId].secondCard} :
                  /\ grid'[pos] = [card |-> Null, faceUp |-> FALSE, controller |-> Null]
                  /\ waitingForCard[pos] # <<>> =>
                        /\ calls'[Head(waitingForCard[pos])].pc = "woken"
                        /\ waitingForCard'[pos] = Tail(waitingForCard[pos])
            /\ players'[playerId] = PlayerState
            /\ calls'[ev'.call].pc = "finished"
        /\ (ev'.step = "flipAfterFinish" /\ calls[ev'.call].play = "matched") =>
            players[ev'.player].firstCard = NoPos ]_vars

\* the oldest flip suspended on pos, if there is one, is woken by the step, and no other
WakesHeadOf(pos) ==
    IF waitingForCard[pos] = <<>>
    THEN ev'.woke = <<>> /\ waitingForCard' = waitingForCard
    ELSE /\ ev'.woke = <<Head(waitingForCard[pos])>>
         /\ calls'[Head(waitingForCard[pos])].pc = "woken"
         /\ waitingForCard' = [waitingForCard EXCEPT ![pos] = Tail(waitingForCard[pos])]

\* C13: a second flip, by a player that holds its first card, on an uncontrolled spot
\* whose card differs from the first card
\* returns with both spots face up and uncontrolled, secondCard the target, matched
\* false, and the oldest flip suspended on the first card woken.
C13_SecondFlipMiss ==
    [][ \A pos \in Positions :
            (/\ SecondFlipOfHolderAt(pos)
             /\ ~NoCardAt(grid[pos])
             /\ grid[pos].controller = Null
             /\ grid[pos].card # grid[players[ev'.player].firstCard].card)
            => LET playerId == ev'.player
                   first == players[playerId].firstCard
               IN /\ ev'.outcome = "ok"
                  /\ grid'[pos] = [grid[pos] EXCEPT !.faceUp = TRUE]
                  /\ grid'[first] = [grid[first] EXCEPT !.controller = Null]
                  /\ grid'[first].faceUp
                  /\ players'[playerId] = [firstCard |-> first, secondCard |-> pos, matched |-> FALSE]
                  /\ WakesHeadOf(first) ]_vars

\* a second flip found a different card while another player's flip was suspended on the
\* first card
C13_Witness ==
    /\ ev.step = "flip"
    /\ ev.outcome = "ok"
    /\ ev.woke # <<>>
    /\ ~players[ev.player].matched
    /\ players[ev.player].secondCard = <<ev.row, ev.column>>
    /\ players[ev.player].firstCard # NoPos
    /\ grid[players[ev.player].firstCard].controller = Null
    /\ grid[players[ev.player].firstCard].faceUp

\* Board.finishPreviousPlay, lines 380, 389 and 405: the test of Rule 3-B for two
\* cards, a first card, not Rule 3-A, and `playerState.secondCard !== null`
InS2Miss(playerId) ==
    /\ playerId \in DOMAIN players
    /\ players[playerId].firstCard # NoPos
    /\ players[playerId].secondCard # NoPos
    /\ ~players[playerId].matched

\* C14: when a player with a pair that did not match (the test of Rule 3-B) calls flip,
\* each of its two spots that is face up and uncontrolled is turned face down, a spot of the pair that another player controls
\* keeps its face and its controller, and no other spot changes.
C14_MissedPairTurnedDown ==
    [][ (ev'.step = "flip" /\ InS2Miss(ev'.player)) =>
            LET pair == {players[ev'.player].firstCard, players[ev'.player].secondCard} IN
            /\ \A pos \in pair :
                  /\ (grid[pos].faceUp /\ grid[pos].controller = Null) =>
                        grid'[pos] = [grid[pos] EXCEPT !.faceUp = FALSE]
                  /\ grid[pos].controller # Null => grid'[pos] = grid[pos]
            /\ \A pos \in Positions \ pair : grid'[pos] = grid[pos]
            /\ calls'[ev'.call].pc = "finished" ]_vars

\* a flip finished a missed pair of which another player controls one card: that card is
\* still face up and controlled, the other one is face down
C14_Witness ==
    /\ ev.step = "flip"
    /\ calls[ev.call].pc = "finished"
    /\ calls[ev.call].play = "missed"
    /\ \E pos \in Positions :
          grid[pos].controller \notin {Null, Some(ev.player)} /\ grid[pos].faceUp
    /\ \E pos \in Positions :
          grid[pos].card # Null /\ ~grid[pos].faceUp /\ grid[pos].controller = Null

\* Board.flipSecondCard, lines 333-337 and 342-346: the step fails with err and gives up
\* the first card of its player: the spot loses its controller and nothing else of it
\* is written, the player's firstCard is reset and nothing else of its state, the
\* oldest flip suspended on the spot is woken, and no other spot changes
ReleasesFirst(err) ==
    LET playerId == ev'.player
        first == players[playerId].firstCard
    IN /\ ev'.outcome = err
       /\ calls'[ev'.call].pc = "free"
       /\ grid'[first] = [grid[first] EXCEPT !.controller = Null]
       /\ players'[playerId] = [players[playerId] EXCEPT !.firstCard = NoPos]
       /\ WakesHeadOf(first)
       /\ \A pos \in Positions \ {first} : grid'[pos] = grid[pos]

\* C15: a second flip, by a player that holds its first card, on a spot without a card
\* fails with NoCard; the first card loses its
\* controller and stays face up, the caller is idle again and the oldest flip suspended
\* on the first card is woken.
C15_SecondFlipNoCard ==
    [][ \A pos \in Positions :
            (SecondFlipOfHolderAt(pos) /\ NoCardAt(grid[pos])) =>
                /\ ReleasesFirst("NoCard")
                /\ grid'[players[ev'.player].firstCard].faceUp ]_vars

\* a second flip failed on a removed card and woke the flip suspended on the first card
C15_Witness ==
    /\ ev.step = "flip"
    /\ ev.outcome = "NoCard"
    /\ ev.woke # <<>>
    /\ players[ev.player] = PlayerState
    /\ \E pos \in Positions :
          grid[pos].card # Null /\ grid[pos].faceUp /\ grid[pos].controller = Null

\* C16: a second flip, by a player that holds its first card, on a spot that a player
\* controls, the caller's own first card
\* included, does not suspend: it fails with Held, the first card loses its controller
\* and stays face up, the caller is idle again, the oldest flip suspended on the first
\* card is woken, and the target keeps its controller unless it is that first card.
C16_SecondFlipHeld ==
    [][ \A pos \in Positions :
            (SecondFlipOfHolderAt(pos) /\ ~NoCardAt(grid[pos]) /\ grid[pos].controller # Null)
            => /\ ReleasesFirst("Held")
               /\ grid'[players[ev'.player].firstCard].faceUp
               /\ pos # players[ev'.player].firstCard => grid'[pos].controller = grid[pos].controller
               /\ \A id \in CallIds : calls'[id].pc = "waiting" => calls[id].pc = "waiting" ]_vars

\* a second flip failed on a card that the other player controls
C16_Witness ==
    /\ ev.step = "flip"
    /\ ev.outcome = "Held"
    /\ grid[<<ev.row, ev.column>>].controller \notin {Null, Some(ev.player)}
    /\ players[ev.player] = PlayerState
    /\ \E pos \in Positions \ {<<ev.row, ev.column>>} :
          grid[pos].faceUp /\ grid[pos].controller = Null

\* the step ends a flip with an error
FlipFails ==
    /\ ev'.step \in {"flip", "flipAfterFinish", "flipWoken"}
    /\ ev'.outcome \notin {"ok", "suspended", "pending"}

\* C17: whenever a flip of a player that holds its first card fails, whatever the
\* target, the first card has
\* lost its controller, the player is idle again and the oldest flip suspended on the
\* first card is woken when the error is raised.
C17_FailureReleasesFirst ==
    [][ (FlipFails /\ HoldsFirst(ev'.player)) =>
            LET first == players[ev'.player].firstCard IN
            /\ grid'[first].controller = Null
            /\ players'[ev'.player] = PlayerState
            /\ WakesHeadOf(first) ]_vars

\* C18: a first flip by an idle player on a spot without a card fails with NoCard and
\* changes nothing: the grid, the state of every player (a caller seen for the first time
\* is registered idle), every wait queue, the watchers and every other call are as
\* before, and no suspended flip or watch is woken.
C18_FirstFlipNoCard ==
    [][ \A pos \in Positions :
            (/\ FirstFlipAt(pos)
             /\ NoCardAt(grid[pos]))
            => /\ ev'.outcome = "NoCard"
               /\ grid' = grid
               /\ DOMAIN players' = DOMAIN players \cup {ev'.player}
               /\ \A playerId \in DOMAIN players' :
                     players'[playerId] =
                        IF playerId \in DOMAIN players THEN players[playerId] ELSE PlayerState
               /\ waitingForCard' = waitingForCard
               /\ watchers' = watchers
               /\ \A id \in CallIds \ {ev'.call} : calls'[id] = calls[id]
               /\ calls'[ev'.call].pc = "free"
               /\ ev'.woke = <<>>
               /\ ev'.notified = <<>> ]_vars

\* a first flip failed on a removed card while a watch was registered
C18_Witness ==
    /\ ev.step = "flip"
    /\ ev.outcome = "NoCard"
    /\ grid[<<ev.row, ev.column>>].card = Null
    /\ players[ev.player] = PlayerState
    /\ watchers # <<>>

\* C19: a flip at a row or column outside the grid ends with an error whatever the state
\* of its player (after finishPreviousPlay, where the player had a play to finish), and
\* no step of it makes its player the controller of a spot.
C19_OutsideRejected ==
    [][ (ev'.step \in {"flip", "flipAfterFinish"} /\ ~InGrid(ev'.row, ev'.column)) =>
            /\ \/ ev'.outcome = "AssertionError" /\ calls'[ev'.call].pc = "free"
               \/ /\ ev'.step = "flip"
                  /\ ev'.outcome = "pending"
                  /\ calls'[ev'.call].pc = "finished"
            /\ \A pos \in Positions :
                  grid'[pos].controller = Some(ev'.player) => grid[pos].controller = Some(ev'.player) ]_vars

\* a flip outside the grid by a player that controls its first card was rejected
C19_Witness ==
    /\ ev.step = "flip"
    /\ ev.outcome = "AssertionError"
    /\ ~InGrid(ev.row, ev.column)
    /\ players[ev.player].firstCard # NoPos
    /\ HeldBy(ev.player) = {players[ev.player].firstCard}

\* C20: the board state returned to a player has rows * columns + 1 lines: the header
\* "<rows>x<columns>", then one line per spot in row-major order, which is "none" for
\* a spot without a card, else "down" for a spot that is not face up, else "my <card>"
\* for a spot the player controls, else "up <card>".
C20_Rendering ==
    ev.view # <<>> =>
        /\ Len(ev.view) = rows * columns + 1
        /\ ev.view[1] = ToString(rows) \o "x" \o ToString(columns)
        /\ \A r \in 0..(rows - 1), c \in 0..(columns - 1) :
              LET line == ev.view[r * columns + c + 2]
                  spot == grid[<<r, c>>]
                  card == spot.card
              IN /\ (card = Null \/ card = Some("")) => line = "none"
                 /\ (card \notin {Null, Some("")} /\ ~spot.faceUp) => line = "down"
                 /\ (card \notin {Null, Some("")} /\ spot.faceUp /\ spot.controller = Some(ev.player))
                       => line = "my " \o card[1]
                 /\ (card \notin {Null, Some("")} /\ spot.faceUp /\ spot.controller # Some(ev.player))
                       => line = "up " \o card[1]

\* a look returned the state of a 2x2 board with a removed pair, a card of the caller
\* and a card of another player, and with different lines for (0,1) and (1,0)
C20_Witness ==
    /\ ev.step = "look"
    /\ rows = 2 /\ columns = 2
    /\ \E pos \in Positions : grid[pos].card = Null
    /\ \E pos \in Positions : grid[pos].controller = Some(ev.player)
    /\ \E pos \in Positions : grid[pos].controller \notin {Null, Some(ev.player)}
    /\ ev.view[3] # ev.view[4]

\* the step registers its caller if it is new and changes the state of no player
OnlyRegisters ==
    /\ DOMAIN players' = DOMAIN players \cup {ev'.player}
    /\ \A playerId \in DOMAIN players' :
          players'[playerId] =
             IF playerId \in DOMAIN players THEN players[playerId] ELSE PlayerState

\* C21: look returns in the step that calls it and changes nothing but the registration
\* of a new caller as idle: the grid, the state of the other players, the wait queues,
\* the watchers and the other calls are as before, nobody is woken, the board state
\* returned is the one of that unchanged state, and a look that follows a look of the
\* same player returns the same lines.
C21_LookChangesNothing ==
    [][ ev'.step = "look" =>
            /\ ev'.outcome = "ok"
            /\ calls' = calls
            /\ grid' = grid
            /\ OnlyRegisters
            /\ waitingForCard' = waitingForCard
            /\ watchers' = watchers
            /\ ev'.woke = <<>>
            /\ ev'.notified = <<>>
            /\ ev'.view = boardStateFor(Cur, ev'.player)
            /\ (ev.step = "look" /\ ev.player = ev'.player) => ev'.view = ev.view ]_vars

\* a player looked while the flip of another player was suspended, which is still so
C21_Witness ==
    /\ ev.step = "look"
    /\ \E id \in Waiters :
          /\ calls[id].player # ev.player
          /\ waitingForCard[Target(id)] = <<id>>
    /\ \E pos \in Positions : grid[pos].controller = Some(ev.player)

\* the step is the last segment of a map: the replacements are applied and the map returns
MapApplies ==
    /\ ev'.step \in {"map", "mapResumed"}
    /\ ev'.outcome = "ok"

\* C22: a step that gives a spot another label is the apply step of a map, and after an
\* apply step any two spots that had equal cards before it have equal cards; as every
\* other segment of a map leaves the cards alone, no segment of any call runs on a grid
\* where only a part of the spots of a label is rewritten.
C22_PairConsistency ==
    [][ /\ (\E pos \in Positions : grid'[pos].card \notin {grid[pos].card, Null}) => MapApplies
        /\ MapApplies =>
              \A pos \in Positions, other \in Positions :
                  grid[pos].card = grid[other].card => grid'[pos].card = grid'[other].card
        /\ (ev'.step \in {"map", "mapResumed"} /\ ~MapApplies) => grid' = grid ]_vars

\* a map rewrote both cards of a pair while another map was waiting for its function
C22_Witness ==
    /\ ev.step = "mapResumed"
    /\ ev.outcome = "ok"
    /\ ev.notified # <<>>
    /\ \E id \in CallIds : calls[id].pc = "mapping"
    /\ \E pos \in Positions, other \in Positions :
          pos # other /\ grid[pos].card = grid[other].card /\ grid[pos].card = Some("B")

\* the cards that the map of the step that follows collected when it started
Collected == {calls[ev'.call].cards[k] : k \in 1..Len(calls[ev'.call].cards)}

\* C23: the apply step of map(f) gives every spot whose card x is one of the cards the
\* map collected the card f(x) and leaves the card of every other spot; when the cards
\* on the grid are the collected ones, every spot with a card x has f(x) afterwards.
C23_MapApplies ==
    [][ MapApplies =>
            LET f == calls[ev'.call].f IN
            /\ \A pos \in Positions :
                  grid'[pos].card = IF grid[pos].card # Null /\ grid[pos].card[1] \in Collected
                                    THEN Some(Relabel(f, grid[pos].card[1]))
                                    ELSE grid[pos].card
            /\ Collected = {grid[pos].card[1] : pos \in {p \in Positions : ~NoCardAt(grid[p])}} =>
                  \A pos \in Positions :
                      ~NoCardAt(grid[pos]) => grid'[pos].card = Some(Relabel(f, grid[pos].card[1])) ]_vars

\* a map that swaps A and B returned without a change on a grid with cards B: it had
\* collected the cards before another map rewrote them
C23_Witness ==
    /\ ev.step = "mapResumed"
    /\ ev.outcome = "ok"
    /\ ev.notified = <<>>
    /\ \E pos \in Positions : grid[pos].card = Some("B")

\* the cards that the spots of the grid have
CardsOnGrid == {grid[pos].card[1] : pos \in {p \in Positions : ~NoCardAt(grid[p])}}

\* C24: a map collects each card that a spot has when it starts once, however many spots
\* have it, and nothing for a spot without a card; it calls the function on the first
\* collected card, each continuation records one result and calls it on the next card,
\* and the map returns with the result of the last one: one call per collected card.
C24_OneCallPerCard ==
    [][ /\ ev'.step = "map" =>
              LET cards == calls'[ev'.call].cards IN
              /\ ev'.outcome = (IF CardsOnGrid = {} THEN "ok" ELSE "pending")
              /\ CardsOnGrid # {} =>
                    /\ calls'[ev'.call].pc = "mapping"
                    /\ {cards[k] : k \in 1..Len(cards)} = CardsOnGrid
                    /\ Len(cards) = Cardinality(CardsOnGrid)
                    /\ calls'[ev'.call].repl = <<>>
        /\ ev'.step = "mapResumed" =>
              LET id == ev'.call
                  done == Len(calls[id].repl) + 1
              IN IF ev'.outcome = "pending"
                 THEN /\ done < Len(calls[id].cards)
                      /\ calls'[id].cards = calls[id].cards
                      /\ Len(calls'[id].repl) = done
                      /\ calls'[id].pc = "mapping"
                 ELSE /\ calls'[id].pc = "free"
                      /\ ev'.outcome = "ok" => done = Len(calls[id].cards)
        /\ \A id \in CallIds :
              (calls[id].pc = "mapping" /\ ev'.step # "mapResumed") => calls'[id] = calls[id] ]_vars

\* a map started on a grid where two spots have the card A and collected it once
C24_Witness ==
    /\ ev.step = "map"
    /\ calls[ev.call].pc = "mapping"
    /\ calls[ev.call].cards = <<"A">>
    /\ \E pos \in Positions, other \in Positions :
          pos # other /\ grid[pos].card = Some("A") /\ grid[other].card = Some("A")

\* C25: a map changes cards only: after each of its segments, the apply step included,
\* every spot has the controller and the face it had, every wait queue is as before, no
\* suspended flip is woken and every player has the state it had (the caller of a map is
\* registered idle when it is new).
C25_MapChangesCardsOnly ==
    [][ ev'.step \in {"map", "mapResumed"} =>
            /\ \A pos \in Positions :
                  /\ grid'[pos].controller = grid[pos].controller
                  /\ grid'[pos].faceUp = grid[pos].faceUp
            /\ waitingForCard' = waitingForCard
            /\ ev'.woke = <<>>
            /\ IF ev'.step = "map" THEN OnlyRegisters ELSE players' = players ]_vars

\* a map rewrote the cards while a player controlled a spot and the flip of another
\* player was suspended on it
C25_Witness ==
    /\ ev.step = "mapResumed"
    /\ ev.outcome = "ok"
    /\ ev.notified # <<>>
    /\ \E id \in Waiters :
          /\ waitingForCard[Target(id)] = <<id>>
          /\ grid[Target(id)].controller \notin {Null, Some(calls[id].player)}
          /\ grid[Target(id)].card = Some("B")

\* the step resolves every watch registered before it, once, and no other
NotifiesOnce ==
    /\ ev'.notified = <<watchers>>
    /\ watchers' = <<>>
    /\ \A k \in 1..Len(watchers) : calls'[watchers[k]].pc = "notified"

\* the step resolves no watch
NotifiesNobody ==
    /\ ev'.notified = <<>>
    /\ watchers' = watchers

\* the function that the map whose segment the step is was called with
MapFunction == ev'.f

\* C26: a map with the identity changes no card and resolves no watch; any segment of a
\* map that changes a card resolves the registered watches, in one notification, and a
\* segment that changes no card resolves none.
C26_MapNotifiesOnChange ==
    [][ ev'.step \in {"map", "mapResumed"} =>
            /\ MapFunction = "identity" => grid' = grid
            /\ IF grid' # grid THEN NotifiesOnce ELSE NotifiesNobody ]_vars

\* a map returned without a change, which only the identity does on this board, while a
\* watch was registered: the watch is still registered
C26_Witness ==
    /\ ev.step = "mapResumed"
    /\ ev.outcome = "ok"
    /\ ev.notified = <<>>
    /\ watchers # <<>>
    /\ \A k \in 1..Len(watchers) : calls[watchers[k]].pc = "watching"

\* C27: when the function of a map fails for a card, the map ends with that failure in
\* the continuation that receives it, with every card as it was and no watch resolved,
\* whatever the function returned for the cards before; a map ends with a failure in no
\* other case.
C27_MapFailureAppliesNothing ==
    [][ ev'.step = "mapResumed" =>
            LET c == calls[ev'.call]
                card == c.cards[Len(c.repl) + 1]
            IN /\ Rejects(c.f, card) <=> ev'.outcome = "rejected"
               /\ ev'.outcome = "rejected" =>
                     /\ calls'[ev'.call].pc = "free"
                     /\ grid' = grid
                     /\ NotifiesNobody
                     /\ players' = players ]_vars

\* a map failed on the card B after its function had returned for the card A, while a
\* watch was registered: the cards are A and B as before
C27_Witness ==
    /\ ev.step = "mapResumed"
    /\ ev.outcome = "rejected"
    /\ watchers # <<>>
    /\ grid[<<0, 0>>].card = Some("A")
    /\ grid[<<0, 1>>].card = Some("B")

\* a map has collected its cards and not yet applied the replacements
Mapping == {id \in CallIds : calls[id].pc = "mapping"}

\* C28: while a map waits for its function, a look returns at once and a flip is
\* suspended only on a card that another player controls, so that a flip of a free
\* card ends in the same segment; no step of another call touches the waiting map,
\* which always has a card left to ask for, and each continuation of the map either
\* ends it or leaves it with one card less to go.
C28_MapBlocksNobody ==
    [][ \A id \in Mapping :
          /\ Len(calls[id].repl) < Len(calls[id].cards)
          /\ ev'.step = "look" => ev'.outcome = "ok"
          /\ (ev'.step \in {"flip", "flipAfterFinish"} /\ ev'.outcome = "suspended") =>
                grid[<<ev'.row, ev'.column>>].controller \notin {Null, Some(ev'.player)}
          /\ IF ev'.step = "mapResumed" /\ ev'.call = id
             THEN \/ calls'[id].pc = "free"
                  \/ /\ calls'[id].pc = "mapping"
                     /\ Len(calls'[id].cards) - Len(calls'[id].repl)
                           < Len(calls[id].cards) - Len(calls[id].repl)
             ELSE calls'[id] = calls[id] ]_vars

\* a flip took a card and returned while a map was waiting for its function
C28_Witness ==
    /\ ev.step = "flip"
    /\ ev.outcome = "ok"
    /\ grid[<<ev.row, ev.column>>].controller = Some(ev.player)
    /\ \E id \in Mapping : calls[id].player # ev.player

\* the calls suspended in watch
Watching == {id \in CallIds : calls[id].pc = "watching"}

\* C29: the registered watchers are the calls suspended in watch, each once.  A step that
\* notifies resolves all of them in its first notification, resolves nobody else and
\* leaves the list empty; a step that does not notify leaves every watcher suspended,
\* and a watch registers behind the others and stays suspended.  A resolved watch is
\* touched by no step but its own continuation, which returns the rendering of the
\* board as it is then, for its player, and changes nothing.
C29_NotificationDelivery ==
    [][ /\ {watchers[k] : k \in 1..Len(watchers)} = Watching
        /\ Len(watchers) = Cardinality(Watching)
        /\ ev'.notified # <<>> =>
              /\ ev'.notified[1] = watchers
              /\ \A k \in 2..Len(ev'.notified) : ev'.notified[k] = <<>>
              /\ watchers' = <<>>
              /\ \A id \in Watching : calls'[id] = [calls[id] EXCEPT !.pc = "notified"]
        /\ ev'.notified = <<>> =>
              /\ \A id \in Watching : calls'[id] = calls[id]
              /\ IF ev'.step = "watch"
                 THEN /\ watchers' = Append(watchers, ev'.call)
                      /\ calls'[ev'.call].pc = "watching"
                      /\ ev'.outcome = "suspended"
                 ELSE watchers' = watchers
        /\ \A id \in CallIds :
              (calls[id].pc = "notified" /\ ~(ev'.step = "watchResumed" /\ ev'.call = id))
                  => calls'[id] = calls[id]
        /\ ev'.step = "watchResumed" =>
              /\ calls[ev'.call].pc = "notified"
              /\ calls'[ev'.call].pc = "free"
              /\ ev'.outcome = "ok"
              /\ ev'.view = boardStateFor(Cur, ev'.player)
              /\ grid' = grid /\ players' = players /\ watchers' = watchers ]_vars

\* of two watches that a flip resolved one has returned the board with the card face up,
\* the other has not run yet, and a watch registered since is suspended
C29_Witness ==
    /\ ev.step = "watchResumed"
    /\ ev.outcome = "ok"
    /\ \E i \in 2..Len(ev.view) : ev.view[i] \in {"up A", "my A"}
    /\ \E id \in CallIds : calls[id].pc = "notified"
    /\ Len(watchers) = 1

\* the step turns the spot up or down, removes its card or rewrites its label
Changes(pos) ==
    \/ grid'[pos].faceUp # grid[pos].faceUp
    \/ grid'[pos].card # grid[pos].card

C31_RemovalTerminal ==
    [][ \A pos \in Positions : NoCardAt(grid[pos]) => NoCardAt(grid'[pos]) ]_vars

\* a map that collected the cards before the pair was removed applies its replacements
\* to the empty board
C31_Witness ==
    /\ ev.step = "mapResumed"
    /\ ev.outcome = "ok"
    /\ \A pos \in Positions : grid[pos].card = Null

\* C32: a flip of a player that holds its first card that fails on a spot without a
\* card or on a controlled spot
\* leaves the first card face up and uncontrolled; when the second flip failed on the
\* player's own first card, the next flip of that player, on another spot, turns the
\* released card face down if it is still face up and uncontrolled.
C32_ReleasedCardTurnedDown ==
    [][ /\ (FlipFails /\ HoldsFirst(ev'.player) /\ ev'.outcome \in {"NoCard", "Held"}) =>
              LET first == players[ev'.player].firstCard IN
              grid'[first].faceUp /\ grid'[first].controller = Null
        /\ LET released == <<ev.row, ev.column>> IN
           ( /\ ev.step \in {"flip", "flipAfterFinish"}
             /\ ev.outcome = "Held"
             /\ grid[released].faceUp
             /\ grid[released].controller = Null
             /\ ev'.step = "flip"
             /\ ev'.player = ev.player
             /\ <<ev'.row, ev'.column>> # released )
           => ~grid'[released].faceUp ]_vars

\* C33: a second flip, by a player that holds its first card, on a spot that is face up
\* and uncontrolled and carries the card
\* of the first spot takes control of it and resolves every registered watch.
C33_MatchOnFaceUpWakesWatchers ==
    [][ \A pos \in Positions :
            ( /\ SecondFlipOfHolderAt(pos)
              /\ ~NoCardAt(grid[pos])
              /\ grid[pos].faceUp
              /\ grid[pos].controller = Null
              /\ grid[pos].card = grid[players[ev'.player].firstCard].card )
            => /\ ev'.outcome = "ok"
               /\ grid'[pos].controller = Some(ev'.player)
               /\ players'[ev'.player].matched
               /\ \A id \in Watching : calls'[id].pc = "notified" ]_vars

\* C34: a player with a first card and no second card controls the first spot; a
\* player with a first and a second card that matched controls both spots, which are
\* face up and carry the same card.
C34_TurnStateConsistent ==
    \A playerId \in DOMAIN players :
        LET ps == players[playerId] IN
        /\ (ps.firstCard # NoPos /\ ps.secondCard = NoPos) =>
              grid[ps.firstCard].controller = Some(playerId)
        /\ (ps.firstCard # NoPos /\ ps.secondCard # NoPos /\ ps.matched) =>
              /\ grid[ps.firstCard].controller = Some(playerId)
              /\ grid[ps.secondCard].controller = Some(playerId)
              /\ grid[ps.firstCard].faceUp
              /\ grid[ps.secondCard].faceUp
              /\ grid[ps.firstCard].card = grid[ps.secondCard].card

\* the step called notifyCardAvailable for the spot
Frees(pos) == \E k \in 1..Len(ev'.freed) : ev'.freed[k] = pos

\* C35: a flip leaves its wait queue only in a step that calls notifyCardAvailable
\* for its spot and that clears the controller of the spot, removes the card of the
\* spot, or is a first flip, of a player without a first card, taking control of the
\* spot; a second flip that matches wakes nobody, and the flips suspended on the two
\* spots of the pair stay suspended.
C35_WokenOnlyOnRelease ==
    [][ /\ \A id \in Waiters : calls'[id].pc # "waiting" =>
              LET pos == Target(id) IN
              /\ calls'[id].pc = "woken"
              /\ Frees(pos)
              /\ \/ grid[pos].controller # Null /\ grid'[pos].controller = Null
                 \/ ~NoCardAt(grid[pos]) /\ NoCardAt(grid'[pos])
                 \/ /\ ev'.step \in {"flip", "flipAfterFinish", "flipWoken"}
                    /\ <<ev'.row, ev'.column>> = pos
                    /\ Idle(ev'.player)
                    /\ ev'.outcome = "ok"
                    /\ players'[ev'.player].firstCard = pos
                    /\ grid'[pos].controller = Some(ev'.player)
        /\ \A pos \in Positions :
              (SecondFlipOfHolderAt(pos) /\ ev'.outcome = "ok" /\ players'[ev'.player].matched) =>
                  /\ ev'.woke = <<>>
                  /\ waitingForCard' = waitingForCard
                  /\ \A id \in Waiters : calls'[id] = calls[id] ]_vars

\* the outcomes of a segment of a flip that are no failure of an assertion
RuleOutcomes == {"ok", "suspended", "pending", "NoCard", "Held", "StillHeld"}

\* C36: when every player lets a flip end before its next one and the targets are in
\* the grid, every segment of a flip returns, suspends or fails with NoCard, Held or
\* StillHeld; the values that the flip asserts are there: its player is registered and
\* the first and second card of the player are unset or spots of the grid.
C36_NoAssertionFails ==
    [][ ev'.step \in {"flip", "flipAfterFinish", "flipWoken"} =>
            /\ ev'.outcome \in RuleOutcomes
            /\ ev'.player \in DOMAIN players'
            /\ \A playerId \in DOMAIN players' :
                  /\ players'[playerId].firstCard \in Positions \cup {NoPos}
                  /\ players'[playerId].secondCard \in Positions \cup {NoPos} ]_vars

\* with three players a woken flip found the spot taken
C36_Witness ==
    /\ ev.step = "flipWoken"
    /\ ev.outcome = "StillHeld"
    /\ Cardinality(DOMAIN players) = NumQueuePlayers

\* C37: when a woken first flip takes control of its spot, its player has no first and
\* no second card and controls no spot.
C37_WokenFlipFindsIdleTurn ==
    [][ (ev'.step = "flipWoken" /\ ev'.outcome = "ok") =>
            /\ players[ev'.player].firstCard = NoPos
            /\ players[ev'.player].secondCard = NoPos
            /\ \A pos \in Positions : grid[pos].controller # Some(ev'.player) ]_vars

\* the spots that have a card before the step and none after it
Removed == {pos \in Positions : ~NoCardAt(grid[pos]) /\ NoCardAt(grid'[pos])}

\* C38: no step gives a card to a spot without one, and a step that takes cards away is
\* a flip that takes them from exactly two spots, which its player controlled and
\* which carried the same card.
C38_RemovedInPairs ==
    [][ /\ \A pos \in Positions : NoCardAt(grid[pos]) => NoCardAt(grid'[pos])
        /\ Removed # {} =>
              /\ Cardinality(Removed) = 2
              /\ ev'.step = "flip"
              /\ \A pos \in Removed : grid[pos].controller = Some(ev'.player)
              /\ \A pos, other \in Removed : grid[pos].card = grid[other].card ]_vars

\* C39: a spot that a player controls keeps its controller, stays face up and keeps a
\* card in every step that is not a step of a flip of that player; a step of a map
\* changes nothing of it but the card.
C39_HeldSpotUntouched ==
    [][ \A pos \in Positions :
            grid[pos].controller # Null =>
                /\ ~(ev'.step \in {"flip", "flipAfterFinish", "flipWoken"}
                        /\ Some(ev'.player) = grid[pos].controller) =>
                      /\ grid'[pos].controller = grid[pos].controller
                      /\ grid'[pos].faceUp = grid[pos].faceUp
                      /\ NoCardAt(grid'[pos]) = NoCardAt(grid[pos])
                /\ ev'.step \in {"map", "mapResumed"} =>
                      grid'[pos] = [grid[pos] EXCEPT !.card = grid'[pos].card]
                /\ ev'.step \notin {"map", "mapResumed"} =>
                      grid'[pos].card \in {grid[pos].card, Null} ]_vars

\* the spots that boardStateFor renders as none
Empty == {pos \in Positions : NoCardAt(grid[pos])}

\* C40: a step of a map leaves the set of the spots without a card as it is, for every
\* function, and the board that the map returns shows none at exactly those spots.
C40_MapKeepsCards ==
    [][ ev'.step \in {"map", "mapResumed"} =>
            /\ Empty' = Empty
            /\ ev'.outcome = "ok" =>
                  \A pos \in Positions :
                      (ev'.view[pos[1] * columns + pos[2] + 2] = "none") <=> (pos \in Empty) ]_vars

====
